---------------------------- MODULE Spec2Model ----------------------------
(***************************************************************************)
(* A model of the cross-chain bridge adapters (Interlay/Kintsugi, Astar,   *)
(* Parallel/Heiko) and of the transfer-verification script                 *)
(* (runTestCasesAndExit, retryCheckTransfer, checkTransfer, sendTx).       *)
(*                                                                         *)
(* Amounts are integers in the smallest unit (planck) of the token.        *)
(* The specifications share the variables:                                 *)
(*   Spec         the verification script, one batch run                   *)
(*   SpecTimed    the script when the deadline of a session is kept        *)
(*   SpecFee      the fee judgment of checkTransfer on drawn inputs        *)
(*   SpecSession  one session of sendTx on the destination balance         *)
(*   SpecAdapter  one adapter: activation and its three operations         *)
(*   SpecRoute    the fees an adapter quotes for its routes                *)
(*   SpecStream   one adapter and the stream a caller subscribes to        *)
(*   SpecKey      the general key of the Astar createTx on drawn ids       *)
(***************************************************************************)
EXTENDS Integers, Sequences, FiniteSets, TLC

(***************************************************************************)
(* Bounds of the model.                                                    *)
(***************************************************************************)
\* number of (from, to, token) triples in the batch
NumCases == 2
\* largest fee the destination chain takes from one transfer
MaxFee == 2
\* largest configured cross-chain fee budget of a route
MaxFeeBudget == 3
\* largest configured existential deposit of the destination
MaxEd == 1
\* largest amounts drawn for the fee judgment alone (SpecFee)
MaxJudgedFee == 101
MaxJudgedBudget == 100
\* largest number of CHECKING statuses one session consumes
MaxStatuses == 2
\* number of byte patterns the raw token ids of the general-key padding are
\* drawn from (SpecKey)
NumKeyPatterns == 3
\* largest amount of a record of the chain's balance stores (SpecStream)
MaxBalance == 3
\* largest locked and largest reserved amount of such a record
MaxLocked == 1
\* largest fee the dry run of a transfer estimates
MaxTxFee == 2
\* largest minimum balance to exist of a token of Heiko or Parallel
MaxTokenEd == 1
\* largest number of records one balance store delivers to a subscription
MaxTicks == 2

(***************************************************************************)
(* Program constants.                                                      *)
(***************************************************************************)
\* retryCheckTransfer(from, to, token, bridge, 3)
MaxAttempts == 3
\* expectedMinAmount.mul(new FN(10))
MinAmountFactor == 10
\* decimals of the coarsest configured token (USDT); FN keeps that many
\* decimal places in a quotient
Decimals == 6
\* process.exit(0), process.exit(-1), process.exit(-2)
ExitOk == 0
ExitWarn == -1
ExitFail == -2
\* process.exit(-1) of main().catch
ExitUncaught == -1

VARIABLES
    \* ---- the verification script
    pc,                     \* position of the script
    idx,                    \* index of the triple being tested (for .. of)
    defect,                 \* configuration defect of the current triple
    feeBudgetCfg,           \* the route's configured fee (getCrossChainFee)
    edCfg,                  \* the configured destination ED (getDestED)
    attemptCount,           \* retryCheckTransfer's attemptCount
    everyAttemptTimedOut,   \* history: every attempt of this triple so far
                            \*   ended in a TIMEOUT session
    ret,                    \* checkTransfer's ret
    actualFee,              \* checkTransfer's actualFee
    testCase,               \* sendTx's testCase
    sentAmount,             \* sendTx's sentAmount
    session,                \* state of the verification session
    subscribed,             \* the session holds a subscription
    consumed,               \* the CHECKING statuses the session consumed,
                            \*   until the balance is read
    newBalance,             \* sendTx's newBalance (free)
    caught,                 \* the error caught by checkTransfer's catch
    result,                 \* retryCheckTransfer's result
    verdicts,               \* the verdict printed for each triple, in order
    problematicTestCases,   \* runTestCasesAndExit's problematicTestCases
    aggregateTestResult,    \* runTestCasesAndExit's aggregateTestResult
    uncaught,               \* the error that reached main().catch
    exitCode,               \* argument of process.exit
    dest,                   \* the fresh destination address: its balance on
                            \*   the chain, and the balances the session saw
    \* ---- one adapter
    chain,                  \* the adapter's chain id
    api,                    \* this.api
    balanceAdapter,         \* this.balanceAdapter
    nativeToken,            \* balanceAdapter.nativeToken
    xcmVersions,            \* the message encodings the api's runtime knows
    stream,                 \* the stream the last subscription returned: its
                            \*   inputs' latest values and its last emission
    call                    \* the last operation called and its outcome

scriptVars == <<pc, idx, defect, feeBudgetCfg, edCfg, attemptCount,
                everyAttemptTimedOut, ret, actualFee, testCase, sentAmount,
                session, subscribed, consumed, newBalance, caught, result,
                verdicts, problematicTestCases, aggregateTestResult, uncaught,
                exitCode, dest>>

adapterVars ==
    <<chain, api, balanceAdapter, nativeToken, xcmVersions, stream, call>>

vars == <<scriptVars, adapterVars>>

(***************************************************************************)
(* Verdicts and errors.                                                    *)
(***************************************************************************)
ResultCode == {"OK", "WARN", "FAIL"}

\* the numeric value of the enum ResultCode
ResultCodeValue(code) ==
    CASE code = "OK" -> 0
      [] code = "WARN" -> 1
      [] code = "FAIL" -> 2

\* errors of the taxonomy raised by lookups and configuration
LookupErrors == {"ApiNotFound", "CurrencyNotFound", "AdapterNotFound", "RouteNotFound"}

\* the Error thrown by sendTx
TransferFailed == "TransferFailed"

NoError == "none"

\* the minimum inputs subscribeMinInput reports
MinInputs == {1}

\* the free balance a fresh destination address shows after a transfer of
\* `sent`: nothing, or what is left after the destination took its fee
PossibleBalances(sent) ==
    {0} \cup {sent - f : f \in {g \in 0..MaxFee : g < sent}}


(***************************************************************************)
(* checkTransfer: the fee judgment.                                        *)
(***************************************************************************)
\* FN keeps Decimals decimal places
Scale == 10 ^ Decimals

\* feeBudget.div(actualFee): the quotient as FN computes it, cut (rounded
\* down) to Decimals decimal places, in units of 1/Scale. The quotient by a
\* zero fee is not a finite number and is not computed here.
FeeOverestimationFactor(feeBudget, fee) == (feeBudget * Scale) \div fee

\* feeOverestimationFactor.toNumber() <= n; no comparison holds of the
\* quotient by a zero fee (Infinity, or NaN for 0 / 0)
FactorAtMost(feeBudget, fee, n) ==
    fee > 0 /\ FeeOverestimationFactor(feeBudget, fee) <= n * Scale

\* feeOverestimationFactor.toNumber() < n
FactorBelow(feeBudget, fee, n) ==
    fee > 0 /\ FeeOverestimationFactor(feeBudget, fee) < n * Scale

\* a fee check that warns only strictly below 2
FeeVerdictStrict(feeBudget, fee) ==
    IF FactorBelow(feeBudget, fee, 2)
    THEN IF FactorBelow(feeBudget, fee, 1) THEN "FAIL" ELSE "WARN"
    ELSE "OK"

\* the verdict of the fee check; FAIL is returned at once, WARN is kept in
\* ret for the existential-deposit check to overrule
FeeVerdict(feeBudget, fee) ==
    IF FactorAtMost(feeBudget, fee, 2)
    THEN IF FactorBelow(feeBudget, fee, 1) THEN "FAIL" ELSE "WARN"
    ELSE "OK"

\* the message of the fee check
FeeMessage(code) == IF code = "OK" THEN "" ELSE "FeesNeedIncrease"

\* actualFee.add(expectedEd).add(FN.fromInner("1", precision))
AmountToSend(fee, ed) == fee + ed + 1

\* a sendTx that looks at the balance only
TransferFailsOnZeroBalance(status, balance) == balance = 0

\* a sendTx that looks at the session result only
TransferFailsIgnoringBalance(status, balance) == status # "SUCCESS"

\* result != BalanceChangedStatus.SUCCESS || newBalance.isZero()
TransferFails(status, balance) == status # "SUCCESS" \/ balance = 0

\* the message of the error caught
ErrorMessage(err) ==
    IF err = TransferFailed
    THEN IF testCase = "FeeEstimate"
         THEN "TransferFailed:FeeEstimate"
         ELSE "TransferFailed:ExistentialDeposit"
    ELSE err

\* a catch that lets everything pass
CatchesNothing(err) == FALSE

\* catch (error): every error thrown inside checkTransfer's try is caught
Catches(err) == TRUE

\* an error thrown inside the try block of checkTransfer: the catch turns it
\* into a FAIL result; one the catch does not hold rejects the promises up
\* to main().catch
Throw(err) ==
    /\ everyAttemptTimedOut' =
           (everyAttemptTimedOut /\ err = TransferFailed /\ session = "TIMEOUT")
    /\ IF Catches(err)
       THEN /\ caught' = err
            /\ result' = [result |-> "FAIL", message |-> ErrorMessage(err),
                          attempt |-> attemptCount]
            /\ pc' = "retry"
            /\ UNCHANGED uncaught
       ELSE /\ uncaught' = err
            /\ pc' = "catch"
            /\ UNCHANGED <<caught, result>>

\* checkTransfer returns a result of its own
Return(code, message) ==
    /\ everyAttemptTimedOut' = FALSE
    /\ result' = [result |-> code, message |-> message, attempt |-> attemptCount]
    /\ pc' = "retry"
    /\ UNCHANGED <<caught, uncaught>>

\* no balance saved yet
Unset == -1

\* getRandomAddress: an address that holds nothing and was never watched
NoDest == [balance |-> 0, saved |-> Unset, last |-> 0]

batchVars == <<verdicts, problematicTestCases, aggregateTestResult, exitCode>>
caseVars == <<idx, defect, feeBudgetCfg, edCfg, attemptCount>>

NoResult == [result |-> "OK", message |-> "", attempt |-> 0]

(***************************************************************************)
(* runTestCasesAndExit: connecting.                                        *)
(***************************************************************************)
\* connect all adapters and set the api of each; a failure rejects main()
Connect ==
    /\ pc = "main"
    /\ \/ /\ pc' = "loop"
          /\ UNCHANGED uncaught
       \/ /\ pc' = "catch"
          /\ uncaught' = "ConnectError"
    /\ UNCHANGED <<caseVars, everyAttemptTimedOut, ret, actualFee, testCase,
                   sentAmount, session, subscribed, consumed, newBalance, caught, result,
                   batchVars, adapterVars, dest>>

\* main().catch: log and exit
MainCatch ==
    /\ pc = "catch"
    /\ exitCode' = ExitUncaught
    /\ pc' = "exited"
    /\ UNCHANGED <<caseVars, everyAttemptTimedOut, ret, actualFee, testCase,
                   sentAmount, session, subscribed, consumed, newBalance, caught, result,
                   verdicts, problematicTestCases, aggregateTestResult,
                   uncaught, adapterVars, dest>>

\* for (const {from, to, token} of testCases): the next triple, with the
\* configuration it meets, and the first call of retryCheckTransfer
NextCase ==
    /\ pc = "loop"
    /\ idx <= NumCases
    /\ \E d \in {NoError} \cup LookupErrors, b \in 0..MaxFeeBudget, e \in 0..MaxEd :
          /\ defect' = d
          /\ feeBudgetCfg' = b
          /\ edCfg' = e
    /\ attemptCount' = 1
    /\ everyAttemptTimedOut' = TRUE
    /\ result' = NoResult
    /\ pc' = "checkTransfer"
    /\ UNCHANGED <<idx, ret, actualFee, testCase, sentAmount, session,
                   subscribed, consumed, newBalance, caught, uncaught, batchVars,
                   adapterVars, dest>>

(***************************************************************************)
(* checkTransfer and sendTx.                                               *)
(***************************************************************************)
\* checkTransfer up to its first sendTx: findAdapter, subscribeMinInput and
\* getDestED; the locals of the call start afresh
CheckTransferBegin ==
    /\ pc = "checkTransfer"
    /\ ret' = [message |-> "", result |-> "OK"]
    /\ actualFee' = 0
    /\ newBalance' = 0
    /\ session' = "NONE"
    /\ testCase' = "FeeEstimate"
    /\ \/ /\ defect = "AdapterNotFound"
          /\ sentAmount' = 0
          /\ Throw("AdapterNotFound")
       \/ /\ defect = "RouteNotFound"
          /\ sentAmount' = 0
          /\ Throw("RouteNotFound")
       \/ /\ defect # "AdapterNotFound"
          /\ \E m \in MinInputs : sentAmount' = m * MinAmountFactor
          /\ caught' = NoError
          /\ pc' = "sendTx"
          /\ UNCHANGED <<everyAttemptTimedOut, result, uncaught>>
    /\ UNCHANGED <<caseVars, subscribed, consumed, batchVars, adapterVars,
                   dest>>

\* sendTx up to createTx: the adapters are found and the message is built
SendTxCreate ==
    /\ pc = "sendTx"
    /\ IF defect \in {"ApiNotFound", "CurrencyNotFound"}
       THEN Throw(defect)
       ELSE /\ pc' = "submit"
            /\ UNCHANGED <<everyAttemptTimedOut, caught, result, uncaught>>
    /\ UNCHANGED <<caseVars, ret, actualFee, testCase, sentAmount, session,
                   subscribed, consumed, newBalance, batchVars, adapterVars,
                   dest>>

\* subscribeBalanceChanged(cfg) builds the stream of statuses, submitTx
\* signs and sends the message and is awaited
SendTxSubmit ==
    /\ pc = "submit"
    /\ session' = "PENDING"
    /\ pc' = "subscribe"
    /\ UNCHANGED <<caseVars, everyAttemptTimedOut, ret, actualFee, testCase,
                   sentAmount, subscribed, consumed, newBalance, caught, result,
                   uncaught, batchVars, adapterVars, dest>>

\* the statuses of subscribeBalanceChanged
BalanceChangedStatus == {"CHECKING", "SUCCESS", "TIMEOUT"}

\* a predicate that lets a session go on after its deadline
ContinuesUntilSuccess(x) == x # "SUCCESS"

\* takeWhile((x) => x == BalanceChangedStatus.CHECKING, true)
Continues(x) == x = "CHECKING"

\* lastValueFrom(changes.pipe(takeWhile(...))) subscribes to the statuses
SendTxSubscribe ==
    /\ pc = "subscribe"
    /\ session' = "CHECKING"
    /\ subscribed' = TRUE
    /\ consumed' = 0
    /\ pc' = "checking"
    /\ UNCHANGED <<caseVars, everyAttemptTimedOut, ret, actualFee, testCase,
                   sentAmount, newBalance, caught, result, uncaught, batchVars,
                   adapterVars, dest>>

\* a status for which takeWhile's predicate holds is consumed, and the
\* session goes on
StatusChecking ==
    /\ pc = "checking"
    /\ subscribed
    /\ consumed < MaxStatuses
    /\ \E status \in BalanceChangedStatus :
          /\ Continues(status)
          /\ session' = status
    /\ consumed' = consumed + 1
    /\ UNCHANGED <<pc, caseVars, everyAttemptTimedOut, ret, actualFee, testCase,
                   sentAmount, subscribed, newBalance, caught, result,
                   uncaught, batchVars, adapterVars, dest>>

\* the first status for which the predicate fails ends takeWhile
\* (inclusive): the stream completes, the subscription is released, and the
\* status is result
SessionEnd ==
    /\ pc = "checking"
    /\ subscribed
    /\ \E status \in BalanceChangedStatus :
          /\ ~Continues(status)
          /\ session' = status
    /\ subscribed' = FALSE
    /\ pc' = "readBalance"
    /\ UNCHANGED <<caseVars, everyAttemptTimedOut, ret, actualFee, testCase,
                   sentAmount, consumed, newBalance, caught, result, uncaught,
                   batchVars, adapterVars, dest>>

\* firstValueFrom(destAdapter.subscribeTokenBalance(token, destAddress)).free;
\* the session's statuses are out of reach from here on
SendTxReadBalance ==
    /\ pc = "readBalance"
    /\ \E b \in PossibleBalances(sentAmount) : newBalance' = b
    /\ consumed' = 0
    /\ pc' = "judge"
    /\ UNCHANGED <<caseVars, everyAttemptTimedOut, ret, actualFee, testCase,
                   sentAmount, session, subscribed, caught, result, uncaught,
                   batchVars, adapterVars, dest>>

\* the end of sendTx: it throws, or returns sentAmount - newBalance; the
\* first sendTx returns into the fee check, the second into `return ret`
SendTxJudge ==
    /\ pc = "judge"
    /\ IF TransferFails(session, newBalance)
       THEN /\ Throw(TransferFailed)
            /\ UNCHANGED actualFee
       ELSE IF testCase = "FeeEstimate"
            THEN /\ actualFee' = sentAmount - newBalance
                 /\ pc' = "feeCheck"
                 /\ UNCHANGED <<everyAttemptTimedOut, caught, result, uncaught>>
            ELSE /\ Return(ret.result, ret.message)
                 /\ UNCHANGED actualFee
    /\ UNCHANGED <<caseVars, ret, testCase, sentAmount, session, subscribed, consumed,
                   newBalance, batchVars, adapterVars, dest>>

\* checkTransfer between its two sendTx: getCrossChainFee, the fee judgment,
\* and the amount of the existential-deposit transfer
CheckFee ==
    /\ pc = "feeCheck"
    /\ IF defect = "RouteNotFound"
       THEN /\ Throw("RouteNotFound")
            /\ UNCHANGED <<ret, testCase, sentAmount>>
       ELSE LET code == FeeVerdict(feeBudgetCfg, actualFee) IN
            IF code = "FAIL"
            THEN /\ Return("FAIL", FeeMessage(code))
                 /\ UNCHANGED <<ret, testCase, sentAmount>>
            ELSE /\ ret' = [message |-> FeeMessage(code), result |-> code]
                 /\ testCase' = "ExistentialDeposit"
                 /\ sentAmount' = AmountToSend(actualFee, edCfg)
                 /\ pc' = "sendTx"
                 /\ UNCHANGED <<everyAttemptTimedOut, caught, result, uncaught>>
    /\ UNCHANGED <<caseVars, actualFee, session, subscribed, consumed, newBalance,
                   batchVars, adapterVars, dest>>

(***************************************************************************)
(* retryCheckTransfer.                                                     *)
(***************************************************************************)
\* a retry that counts one attempt too many
HasRetriesLeftOffByOne(count, maxAttempts) == count <= maxAttempts

\* attemptCount < maxAttempts
HasRetriesLeft(count, maxAttempts) == count < maxAttempts

\* a retry that takes a warning for a success
ReturnsAtOnceUnlessFail(res) == res.result # "FAIL"

\* result.result === ResultCode.OK: the result is returned without a retry
ReturnsAtOnce(res) == res.result = "OK"

\* a retry that does not wait for checkTransfer: the next attempt may start
\* while the session of this one goes on
RetryDecideWithoutAwait ==
    /\ \/ /\ pc = "retry"
          /\ IF ReturnsAtOnce(result)
             THEN /\ pc' = "record"
                  /\ UNCHANGED attemptCount
             ELSE IF HasRetriesLeft(attemptCount, MaxAttempts)
                  THEN /\ attemptCount' = attemptCount + 1
                       /\ pc' = "checkTransfer"
                  ELSE /\ pc' = "record"
                       /\ UNCHANGED attemptCount
       \/ /\ pc = "checking"
          /\ HasRetriesLeft(attemptCount, MaxAttempts)
          /\ attemptCount' = attemptCount + 1
          /\ pc' = "checkTransfer"
    /\ UNCHANGED <<idx, defect, feeBudgetCfg, edCfg, everyAttemptTimedOut, ret,
                   actualFee, testCase, sentAmount, session, subscribed, consumed,
                   newBalance, caught, result, uncaught, batchVars,
                   adapterVars, dest>>

\* retryCheckTransfer after `await checkTransfer(...)`: return the result,
\* or call itself with attemptCount + 1
RetryDecide ==
    /\ pc = "retry"
    /\ IF ReturnsAtOnce(result)
       THEN /\ pc' = "record"
            /\ UNCHANGED attemptCount
       ELSE IF HasRetriesLeft(attemptCount, MaxAttempts)
            THEN /\ attemptCount' = attemptCount + 1
                 /\ pc' = "checkTransfer"
            ELSE /\ pc' = "record"
                 /\ UNCHANGED attemptCount
    /\ UNCHANGED <<idx, defect, feeBudgetCfg, edCfg, everyAttemptTimedOut, ret,
                   actualFee, testCase, sentAmount, session, subscribed, consumed,
                   newBalance, caught, result, uncaught, batchVars,
                   adapterVars, dest>>

(***************************************************************************)
(* runTestCasesAndExit: the report.                                        *)
(***************************************************************************)
IconOf(code) ==
    CASE code = "OK" -> "check"
      [] code = "WARN" -> "warning"
      [] code = "FAIL" -> "cross"

\* an aggregate that takes every result that is not OK
NextAggregateLastWins(aggregate, code) ==
    IF code # "OK" THEN code ELSE aggregate

\* only 'increase' the aggregate error
NextAggregate(aggregate, code) ==
    IF code # "OK"
    THEN IF aggregate = "OK" \/ (aggregate = "WARN" /\ code = "FAIL")
         THEN code
         ELSE aggregate
    ELSE aggregate

\* problematicTestCases.push(...) of a result that is not OK
NextProblematic(problematic, case, res) ==
    IF res.result # "OK"
    THEN Append(problematic, [case |-> case, icon |-> IconOf(res.result),
                              message |-> res.message])
    ELSE problematic

\* the loop body after `await retryCheckTransfer(...)`
RecordResult ==
    /\ pc = "record"
    /\ verdicts' = Append(verdicts, result.result)
    /\ problematicTestCases' = NextProblematic(problematicTestCases, idx, result)
    /\ aggregateTestResult' = NextAggregate(aggregateTestResult, result.result)
    /\ idx' = idx + 1
    /\ pc' = "loop"
    /\ UNCHANGED <<defect, feeBudgetCfg, edCfg, attemptCount,
                   everyAttemptTimedOut, ret, actualFee, testCase, sentAmount,
                   session, subscribed, consumed, newBalance, caught, result, uncaught,
                   exitCode, adapterVars, dest>>

\* an exit code that does not tell FAIL from WARN
ExitCodeOfMerged(aggregate) ==
    CASE aggregate = "OK" -> ExitOk
      [] aggregate = "WARN" -> ExitWarn
      [] aggregate = "FAIL" -> ExitWarn

\* switch (aggregateTestResult): the argument of process.exit
ExitCodeOf(aggregate) ==
    CASE aggregate = "OK" -> ExitOk
      [] aggregate = "WARN" -> ExitWarn
      [] aggregate = "FAIL" -> ExitFail

\* the exit status the parent process reads: the low byte of the code
ExitStatus(code) == code % 256

\* a batch that gives up at the first triple that failed
ReportAtFirstFail ==
    /\ pc = "loop"
    /\ idx > NumCases \/ aggregateTestResult = "FAIL"
    /\ exitCode' = ExitCodeOf(aggregateTestResult)
    /\ pc' = "exited"
    /\ UNCHANGED <<caseVars, everyAttemptTimedOut, ret, actualFee, testCase,
                   sentAmount, session, subscribed, consumed, newBalance,
                   caught, result, verdicts, problematicTestCases,
                   aggregateTestResult, uncaught, adapterVars, dest>>

\* after the loop: log the aggregate and exit
Report ==
    /\ pc = "loop"
    /\ idx > NumCases
    /\ exitCode' = ExitCodeOf(aggregateTestResult)
    /\ pc' = "exited"
    /\ UNCHANGED <<caseVars, everyAttemptTimedOut, ret, actualFee, testCase,
                   sentAmount, session, subscribed, consumed, newBalance, caught, result,
                   verdicts, problematicTestCases, aggregateTestResult,
                   uncaught, adapterVars, dest>>

(***************************************************************************)
(* The adapters: configuration.                                            *)
(***************************************************************************)
\* the adapters of the three files: InterlayAdapter, KintsugiAdapter,
\* AstarAdapter, HeikoAdapter, ParallelAdapter
AdapterChains == {"interlay", "kintsugi", "astar", "heiko", "parallel"}

\* the base class of each adapter
Family(c) ==
    CASE c \in {"interlay", "kintsugi"} -> "interlay"
      [] c = "astar" -> "astar"
      [] c \in {"heiko", "parallel"} -> "parallel"

Undefined == "undefined"

INTERLAY_SUPPORTED_TOKENS ==
    [t \in {"DOT", "USDT"} |->
        IF t = "DOT" THEN [Token |-> "DOT"] ELSE [ForeignAsset |-> 2]]

KINTSUGI_SUPPORTED_TOKENS ==
    [t \in {"KSM", "USDT"} |->
        IF t = "KSM" THEN [Token |-> "KSM"] ELSE [ForeignAsset |-> 3]]

getSupportedTokens(chainname) ==
    IF chainname = "interlay"
    THEN INTERLAY_SUPPORTED_TOKENS
    ELSE KINTSUGI_SUPPORTED_TOKENS

\* SUPPORTED_TOKENS of astar.ts: the asset ids of the balance store
ASTAR_SUPPORTED_TOKENS ==
    [t \in {"IBTC", "INTR"} |->
        IF t = "IBTC" THEN "18446744073709551620" ELSE "18446744073709551621"]

\* tokenIds of the Astar createTx: the general keys "0x0001" and "0x0002",
\* character by character
ASTAR_tokenIds ==
    [t \in {"IBTC", "INTR"} |->
        IF t = "IBTC"
        THEN <<"0", "x", "0", "0", "0", "1">>
        ELSE <<"0", "x", "0", "0", "0", "2">>]

\* SUPPORTED_TOKENS of parallel.ts
PARALLEL_SUPPORTED_TOKENS ==
    [t \in {"HKO", "KAR", "KUSD", "LKSM", "PARA", "ACA", "AUSD", "LDOT"} |->
        CASE t = "HKO" -> 0
          [] t = "KAR" -> 107
          [] t = "KUSD" -> 103
          [] t = "LKSM" -> 109
          [] t = "PARA" -> 1
          [] t = "ACA" -> 108
          [] t = "AUSD" -> 104
          [] t = "LDOT" -> 110]

\* the token-id lookup table of a chain's adapter
TokenTable(c) ==
    CASE Family(c) = "interlay" -> getSupportedTokens(c)
      [] Family(c) = "astar" -> ASTAR_SUPPORTED_TOKENS
      [] Family(c) = "parallel" -> PARALLEL_SUPPORTED_TOKENS

\* the token symbols a caller may pass: tokens of every table, the native
\* tokens of the chains, and one that no table knows
Tokens ==
    DOMAIN INTERLAY_SUPPORTED_TOKENS \cup DOMAIN KINTSUGI_SUPPORTED_TOKENS
        \cup DOMAIN ASTAR_SUPPORTED_TOKENS
        \cup {"HKO", "KAR", "PARA", "LDOT"} \cup {"KINT", "ASTR", "XYZ"}

\* the native tokens a chain's registry may name
NativeTokens == {"INTR", "KINT", "ASTR", "HKO", "PARA"}

\* the destinations a caller may pass
Destinations ==
    {"polkadot", "kusama", "statemint", "statemine", "interlay", "heiko"}

\* table[token] of a JavaScript record
Lookup(table, token) ==
    IF token \in DOMAIN table THEN table[token] ELSE Undefined

\* a check that never finds an id missing
IsUndefinedNever(table, token) == FALSE

\* tokenId === undefined
IsUndefined(table, token) == token \notin DOMAIN table

\* !tokenId of parallel.ts: the id is missing, or it is the number 0
IsFalsy(table, token) == token \notin DOMAIN table \/ table[token] = 0

\* a check that takes every adapter for activated
IsMissingNever(handle) == FALSE

\* !this.balanceAdapter, this.api === undefined
IsMissing(handle) == handle = Undefined

Threw(error) == [kind |-> "throw", error |-> error]

(***************************************************************************)
(* The adapters: operations.                                               *)
(***************************************************************************)
\* InterlayBalanceAdapter.subscribeBalance
InterlaySubscribeBalance(c, token) ==
    IF IsUndefined(getSupportedTokens(c), token)
    THEN Threw("CurrencyNotFound")
    ELSE [kind |-> "stream", storage |-> "query.tokens.accounts",
          tokenId |-> Lookup(getSupportedTokens(c), token)]

\* AstarBalanceAdapter.subscribeBalance
AstarSubscribeBalance(native, token) ==
    IF token = native
    THEN [kind |-> "stream", storage |-> "derive.balances.all",
          tokenId |-> Undefined]
    ELSE IF IsUndefined(ASTAR_SUPPORTED_TOKENS, token)
         THEN Threw("CurrencyNotFound")
         ELSE [kind |-> "stream", storage |-> "query.assets.account",
               tokenId |-> Lookup(ASTAR_SUPPORTED_TOKENS, token)]

\* ParallelBalanceAdapter.subscribeBalance
ParallelSubscribeBalance(native, token) ==
    IF token = native
    THEN [kind |-> "stream", storage |-> "derive.balances.all",
          tokenId |-> Undefined]
    ELSE IF IsFalsy(PARALLEL_SUPPORTED_TOKENS, token)
         THEN Threw("CurrencyNotFound")
         ELSE [kind |-> "stream", storage |-> "query.assets.account",
               tokenId |-> Lookup(PARALLEL_SUPPORTED_TOKENS, token)]

\* balanceAdapter.subscribeBalance of the adapter of chain c
SubscribeBalance(c, native, token) ==
    CASE Family(c) = "interlay" -> InterlaySubscribeBalance(c, token)
      [] Family(c) = "astar" -> AstarSubscribeBalance(native, token)
      [] Family(c) = "parallel" -> ParallelSubscribeBalance(native, token)

\* subscribeTokenBalance, the same in the three base classes
SubscribeTokenBalance(c, ba, native, token) ==
    IF IsMissing(ba)
    THEN Threw("ApiNotFound")
    ELSE SubscribeBalance(c, native, token)

\* subscribeMaxInput up to the stream it returns: the fee is estimated for
\* the native token only, and the balance is subscribed
SubscribeMaxInput(c, ba, native, token, to) ==
    IF IsMissing(ba)
    THEN Threw("ApiNotFound")
    ELSE LET balance == SubscribeBalance(c, native, token) IN
         IF balance.kind = "throw"
         THEN balance
         ELSE [kind |-> "stream", storage |-> "maxInput",
               txFee |-> IF token = native THEN "estimateTxFee" ELSE "0",
               balance |-> balance]

\* isChainEqual(toChain, "kusama") || isChainEqual(toChain, "polkadot")
RelayChains == {"kusama", "polkadot"}

\* isChainEqual(toChain, "statemine") || isChainEqual(toChain, "statemint")
AssetHubs == {"statemine", "statemint"}

DEST_WEIGHT == "5000000000"

interlayRoutersConfig ==
    {[to |-> "polkadot", token |-> "DOT",
      fee |-> [token |-> "DOT", amount |-> 0], weightLimit |-> DEST_WEIGHT],
     [to |-> "statemint", token |-> "USDT",
      fee |-> [token |-> "DOT", amount |-> 1000000000],
      weightLimit |-> DEST_WEIGHT]}

kintsugiRoutersConfig ==
    {[to |-> "kusama", token |-> "KSM",
      fee |-> [token |-> "KSM", amount |-> 10], weightLimit |-> DEST_WEIGHT],
     [to |-> "statemine", token |-> "USDT",
      fee |-> [token |-> "USDT", amount |-> 10], weightLimit |-> DEST_WEIGHT]}

\* astarRoutersConfig
astarRoutersConfig ==
    {[to |-> "interlay", token |-> "IBTC",
      fee |-> [token |-> "IBTC", amount |-> 710], weightLimit |-> "Unlimited"],
     [to |-> "interlay", token |-> "INTR",
      fee |-> [token |-> "INTR", amount |-> 216604720],
      weightLimit |-> "Unlimited"]}

\* the routers the constructor of InterlayAdapter, KintsugiAdapter passes
InterlayRouters(c) ==
    IF c = "interlay" THEN interlayRoutersConfig ELSE kintsugiRoutersConfig

\* the adapters whose route tables are written in their own files
ChainsWithRouters == {"interlay", "kintsugi", "astar"}

\* the route table the constructor of the adapter of chain c passes
Routers(c) ==
    IF c = "astar" THEN astarRoutersConfig ELSE InterlayRouters(c)

\* the routers of the adapter that lead to `to` with `token`
RoutersOf(routers, token, to) ==
    {r \in routers : r.to = to /\ r.token = token}

\* getCrossChainFee(token, to): the fee of the configured route
getCrossChainFee(routers, token, to) ==
    LET r == CHOOSE r \in RoutersOf(routers, token, to) : TRUE IN
    [token |-> r.fee.token, balance |-> r.fee.amount]

\* getDestWeight(token, to)?.toString()
getDestWeight(routers, token, to) ==
    IF RoutersOf(routers, token, to) = {}
    THEN Undefined
    ELSE (CHOOSE r \in RoutersOf(routers, token, to) : TRUE).weightLimit

\* the amounts a caller may pass, in planck
Amounts == {1, 10}

\* the destination of an Interlay message: the relay chain is one junction
\* away, any other chain two
InterlayDst(to) ==
    IF to \in RelayChains
    THEN [parents |-> 1, interior |-> "X1", junctions |-> <<"AccountId32">>]
    ELSE [parents |-> 1, interior |-> "X2",
          junctions |-> <<"Parachain", "AccountId32">>]

\* the assets of a transfer that names the fee before the principal
MultiCurrenciesFeeFirst(tokenId, amount, destFee) ==
    [currencies |-> <<[currency |-> [Token |-> destFee.token],
                       amount |-> destFee.balance],
                      [currency |-> tokenId, amount |-> amount]>>,
     feeItem |-> 1]

\* the assets of transferMulticurrencies and the index of the fee among them
MultiCurrencies(tokenId, amount, destFee) ==
    [currencies |-> <<[currency |-> tokenId, amount |-> amount],
                      [currency |-> [Token |-> destFee.token],
                       amount |-> destFee.balance]>>,
     feeItem |-> 1]

\* BaseInterlayAdapter.createTx
InterlayCreateTx(c, handle, token, to, amount) ==
    IF IsMissing(handle)
    THEN Threw("ApiNotFound")
    ELSE IF IsUndefined(getSupportedTokens(c), token)
    THEN Threw("CurrencyNotFound")
    ELSE LET tokenId == Lookup(getSupportedTokens(c), token)
             routers == InterlayRouters(c)
         IN
         IF to \in AssetHubs
         THEN IF RoutersOf(routers, token, to) = {}
              THEN Threw("RouteNotFound")
              ELSE LET assets == MultiCurrencies(tokenId, amount,
                                     getCrossChainFee(routers, token, to))
                   IN
                   [kind |-> "tx", section |-> "xTokens",
                    method |-> "transferMulticurrencies",
                    args |-> <<assets.currencies, assets.feeItem,
                               [V1 |-> InterlayDst(to)],
                               getDestWeight(routers, token, to)>>]
         ELSE [kind |-> "tx", section |-> "xTokens", method |-> "transfer",
               args |-> <<tokenId, amount, [V1 |-> InterlayDst(to)],
                          getDestWeight(routers, token, to)>>]

\* the length in bytes of the data of a general key of the newer encoding
XCM_V3_GENERAL_KEY_DATA_BYTES == 32

\* supportsV0V1Multilocation(this.api): the runtime knows the older encoding
supportsV0V1Multilocation(versions) == "V1" \in versions

\* the sets of encodings the runtime of a chain may know; only the Astar
\* builder asks
RuntimeXcmVersions(c) ==
    IF Family(c) = "astar"
    THEN {{"V1"}, {"V3"}, {"V1", "V3"}}
    ELSE {{"V1"}}

\* the hexadecimal digits of a zero byte
ZeroByte == <<"0", "0">>

\* String.prototype.padStart, for comparison
PadStart(str, targetLength, padString) ==
    IF Len(str) >= targetLength \/ Len(padString) = 0
    THEN str
    ELSE [i \in 1..(targetLength - Len(str)) |->
             padString[((i - 1) % Len(padString)) + 1]] \o str

\* String.prototype.padEnd: the string, followed by the pad string repeated
\* (and cut) up to the target length; a string that long is left as it is
PadEnd(str, targetLength, padString) ==
    IF Len(str) >= targetLength \/ Len(padString) = 0
    THEN str
    ELSE str \o [i \in 1..(targetLength - Len(str)) |->
                    padString[((i - 1) % Len(padString)) + 1]]

\* tokenId.replace("0x", ""): the string without the first "0x" in it
Replace0x(str) ==
    LET at == {i \in 1..(Len(str) - 1) : str[i] = "0" /\ str[i + 1] = "x"} IN
    IF at = {}
    THEN str
    ELSE LET i == CHOOSE j \in at : \A k \in at : j <= k IN
         SubSeq(str, 1, i - 1) \o SubSeq(str, i + 2, Len(str))

\* tokenId.replace("0x", "").length / 2, of an id of whole bytes
TokenIdByteCount(tokenId) == Len(Replace0x(tokenId)) \div 2

\* the general key of the newer encoding: { length, data }
GeneralKeyV3(tokenId) ==
    [length |-> TokenIdByteCount(tokenId),
     data |-> PadEnd(tokenId, 2 * XCM_V3_GENERAL_KEY_DATA_BYTES + 2, ZeroByte)]

\* the general key in the encoding chosen
GeneralKey(supportsV1, tokenId) ==
    IF supportsV1 THEN [data |-> tokenId] ELSE GeneralKeyV3(tokenId)

\* an asset list that is always written in the newer encoding
WithdrawAssetsVersionNewer(supportsV1) == "V3"

\* ass = supportsV1 ? { V1: [...] } : { V3: [...] } of a token that is not
\* native: the encoding of the asset list that is built anew
WithdrawAssetsVersion(supportsV1) == IF supportsV1 THEN "V1" ELSE "V3"

\* BaseAstarAdapter.createTx; without a balance adapter no token is native
AstarCreateTx(handle, ba, native, versions, token, to, amount) ==
    IF IsMissing(handle)
    THEN Threw("ApiNotFound")
    ELSE LET supportsV1 == supportsV0V1Multilocation(versions)
             version == IF supportsV1 THEN "V1" ELSE "V3"
             dst == [version |-> version, parents |-> 1, interior |-> "X1",
                     junctions |-> <<"Parachain">>]
             acc == [version |-> version, parents |-> 0, interior |-> "X1",
                     junctions |-> <<"AccountId32">>,
                     network |-> IF supportsV1 THEN "Any" ELSE Undefined]
         IN
         IF ~IsMissing(ba) /\ token = native
         THEN [kind |-> "tx", section |-> "polkadotXcm",
               method |-> "reserveTransferAssets",
               args |-> <<dst, acc,
                          [version |-> version, parents |-> 0,
                           interior |-> "Here", fungible |-> amount],
                          0>>]
         ELSE IF IsUndefined(ASTAR_tokenIds, token)
         THEN Threw("CurrencyNotFound")
         ELSE IF ~supportsV1 /\ token \notin DOMAIN ASTAR_tokenIds
         THEN Threw("TypeError")    \* undefined has no replace
         ELSE [kind |-> "tx", section |-> "polkadotXcm",
               method |-> "reserveWithdrawAssets",
               args |-> <<dst, acc,
                          [version |-> WithdrawAssetsVersion(supportsV1),
                           parents |-> 1, interior |-> "X2",
                           junctions |-> <<"Parachain", "GeneralKey">>,
                           GeneralKey |->
                               GeneralKey(supportsV1,
                                          Lookup(ASTAR_tokenIds, token)),
                           fungible |-> amount],
                          0>>]

\* BaseParallelAdapter.createTx
ParallelCreateTx(handle, token, to, amount) ==
    IF IsMissing(handle)
    THEN Threw("ApiNotFound")
    ELSE IF IsFalsy(PARALLEL_SUPPORTED_TOKENS, token)
    THEN Threw("CurrencyNotFound")
    ELSE [kind |-> "tx", section |-> "xTokens", method |-> "transfer",
          args |-> <<Lookup(PARALLEL_SUPPORTED_TOKENS, token), amount,
                     [V1 |-> [parents |-> 1, interior |-> "X2",
                              junctions |-> <<"Parachain", "AccountId32">>]],
                     "getDestWeight">>]

\* createTx of the adapter of chain c
CreateTx(c, handle, ba, native, versions, token, to, amount) ==
    CASE Family(c) = "interlay" -> InterlayCreateTx(c, handle, token, to, amount)
      [] Family(c) = "astar" ->
             AstarCreateTx(handle, ba, native, versions, token, to, amount)
      [] Family(c) = "parallel" -> ParallelCreateTx(handle, token, to, amount)

(***************************************************************************)
(* The adapters: the streams of balances and of the maximum input.         *)
(* Every amount of one stream has the precision of its token; an amount is *)
(* the integer FN holds (planck).                                          *)
(***************************************************************************)
\* interlayTokensConfig and astarTokensConfig; the tokens of Heiko and
\* Parallel are not configured in parallel.ts
TokensConfig(c) ==
    CASE c = "interlay" ->
             [t \in {"DOT", "USDT"} |->
                 [decimals |-> IF t = "DOT" THEN 10 ELSE 6, ed |-> 0]]
      [] c = "kintsugi" ->
             [t \in {"KSM", "USDT"} |->
                 [decimals |-> IF t = "KSM" THEN 12 ELSE 6, ed |-> 0]]
      [] c = "astar" ->
             [t \in {"ASTR", "IBTC", "INTR"} |->
                 CASE t = "ASTR" -> [decimals |-> 18, ed |-> 1000000]
                   [] t = "IBTC" -> [decimals |-> 8, ed |-> 1]
                   [] t = "INTR" -> [decimals |-> 10, ed |-> 1]]
      [] OTHER -> <<>>

\* the minimum balance to exist the stream subtracts: tokenMeta?.ed || "0"
\* of the configuration; getTokenED(token) || FN.ZERO on Heiko and Parallel
TokenEDs(c, token) ==
    IF Family(c) = "parallel"
    THEN 0..MaxTokenEd
    ELSE {IF token \in DOMAIN TokensConfig(c)
          THEN TokensConfig(c)[token].ed
          ELSE 0}

\* the records a balance store may deliver: derive.balances.all, whose
\* available balance is what of the free balance is not frozen, and the
\* account of a token, which may not exist
StoreRecords(storage) ==
    IF storage = "derive.balances.all"
    THEN {d \in [freeBalance : 0..MaxBalance, lockedBalance : 0..MaxLocked,
                 reservedBalance : 0..MaxLocked,
                 availableBalance : 0..MaxBalance] :
             d.availableBalance <= d.freeBalance}
    ELSE {[present |-> FALSE, balance |-> 0]}
             \cup {[present |-> TRUE, balance |-> b] : b \in 0..MaxBalance}

\* a snapshot of the native token that takes the free balance for the
\* available one
NativeSnapshotFreeAsAvailable(data) ==
    [free |-> data.availableBalance, locked |-> data.lockedBalance,
     reserved |-> data.reservedBalance, available |-> data.freeBalance]

\* map((data) => ({free, locked, reserved, available})) of the native token
NativeSnapshot(data) ==
    [free |-> data.freeBalance, locked |-> data.lockedBalance,
     reserved |-> data.reservedBalance, available |-> data.availableBalance]

\* balance.free?.toString() || "0" and
\* balance.unwrapOrDefault()?.balance?.toString() || "0"
StoreBalance(balance) == IF balance.present THEN balance.balance ELSE 0

\* map((balance) => ...) of every other token: the store's balance is free
\* and available, nothing is locked or reserved
AssetSnapshot(balance) ==
    LET amount == StoreBalance(balance) IN
    [free |-> amount, locked |-> 0, reserved |-> 0, available |-> amount]

\* the snapshot the balance adapter makes of a record of the store
Snapshot(storage, data) ==
    IF storage = "derive.balances.all"
    THEN NativeSnapshot(data)
    ELSE AssetSnapshot(data)

\* feeFactor = 1.2, in tenths
FeeFactorTenths == 12

\* a maximum input with the margin taken off the fee
MaxInputFeeDiscounted(balance, txFee, ed) ==
    10 * balance - (20 - FeeFactorTenths) * txFee - 10 * ed

\* balance.minus(fee).minus(ed) with fee = txFee * 1.2, in tenths of a
\* planck: FN multiplies and subtracts exactly
MaxInput(balance, txFee, ed) ==
    10 * balance - FeeFactorTenths * txFee - 10 * ed

NoSnapshot == [free |-> 0, locked |-> 0, reserved |-> 0, available |-> 0]

\* no subscription
NoStream ==
    [op |-> "none", storage |-> "none", snapshots |-> 0,
     store |-> [present |-> FALSE, balance |-> 0], snapshot |-> NoSnapshot,
     feeKnown |-> FALSE, txFee |-> 0, ed |-> 0, emissions |-> 0,
     emitted |-> 0]

\* the stream of snapshots subscribeBalance returns, nothing delivered yet
BalanceStream(outcome) ==
    [NoStream EXCEPT !.op = "balance", !.storage = outcome.storage]

\* combineLatest({txFee, balance}) of subscribeMaxInput, nothing delivered
\* yet: the txFee "0" of a token that is not native is known at once, the
\* estimate of the native token's transfer is awaited
MaxInputStream(outcome, ed) ==
    [NoStream EXCEPT !.op = "maxInput", !.storage = outcome.balance.storage,
                     !.feeKnown = (outcome.txFee = "0"), !.ed = ed]

\* a combineLatest that emits for every balance, the fee known or not
EmitsAlways(known) == TRUE

\* combineLatest emits once each input has delivered a value
Emits(known) == known

\* the balance store delivers a record: the balance adapter emits its
\* snapshot, and combineLatest of subscribeMaxInput emits the maximum input
\* of that snapshot when the fee is known
StoreChanged ==
    /\ pc = "adapter"
    /\ stream.op # "none"
    /\ stream.snapshots < MaxTicks
    /\ \E data \in StoreRecords(stream.storage) :
          LET snapshot == Snapshot(stream.storage, data)
              emits == stream.op = "maxInput" /\ Emits(stream.feeKnown)
          IN
          stream' = [stream EXCEPT
                        !.store = data,
                        !.snapshot = snapshot,
                        !.snapshots = @ + 1,
                        !.emissions = IF emits THEN @ + 1 ELSE @,
                        !.emitted = IF emits
                                    THEN MaxInput(snapshot.available,
                                                  stream.txFee, stream.ed)
                                    ELSE @]
    /\ UNCHANGED <<scriptVars, chain, api, balanceAdapter, nativeToken,
                   xcmVersions, call>>

\* estimateTxFee delivers the fee of the dry run, once: combineLatest emits
\* the maximum input of the latest snapshot when there is one
FeeEstimated ==
    /\ pc = "adapter"
    /\ stream.op = "maxInput"
    /\ ~stream.feeKnown
    /\ \E txFee \in 0..MaxTxFee :
          LET emits == stream.snapshots > 0 IN
          stream' = [stream EXCEPT
                        !.feeKnown = TRUE,
                        !.txFee = txFee,
                        !.emissions = IF emits THEN @ + 1 ELSE @,
                        !.emitted = IF emits
                                    THEN MaxInput(stream.snapshot.available,
                                                  txFee, stream.ed)
                                    ELSE @]
    /\ UNCHANGED <<scriptVars, chain, api, balanceAdapter, nativeToken,
                   xcmVersions, call>>

\* how far the activation of the adapter has come
Activation ==
    IF api = Undefined THEN "constructed"
    ELSE IF balanceAdapter = Undefined THEN "attached"
    ELSE "ready"

\* setApi up to `await api.isReady`: the handle is attached
SetApiBegin ==
    /\ pc = "adapter"
    /\ api = Undefined
    /\ api' = "api"
    /\ \E versions \in RuntimeXcmVersions(chain) : xcmVersions' = versions
    /\ UNCHANGED <<scriptVars, chain, balanceAdapter, nativeToken, stream, call>>

\* setApi after `await api.isReady`: the balance adapter is created; the
\* chain's registry names the native token
SetApiReady ==
    /\ pc = "adapter"
    /\ api # Undefined
    /\ balanceAdapter = Undefined
    /\ balanceAdapter' = "balanceAdapter"
    /\ \E t \in NativeTokens : nativeToken' = t
    /\ UNCHANGED <<scriptVars, chain, api, xcmVersions, stream, call>>

\* the call subscribeTokenBalance(token, address) and what it returns
TokenBalanceCall(token) ==
    [op |-> "subscribeTokenBalance", token |-> token, to |-> Undefined,
     state |-> Activation,
     outcome |-> SubscribeTokenBalance(chain, balanceAdapter, nativeToken,
                                       token)]

\* the call subscribeMaxInput(token, address, to) and what it returns
MaxInputCall(token, to) ==
    [op |-> "subscribeMaxInput", token |-> token, to |-> to,
     state |-> Activation,
     outcome |-> SubscribeMaxInput(chain, balanceAdapter, nativeToken, token,
                                   to)]

\* subscribeTokenBalance(token, address); nobody subscribes to what it
\* returns
CallSubscribeTokenBalance ==
    /\ pc = "adapter"
    /\ \E token \in Tokens : call' = TokenBalanceCall(token)
    /\ UNCHANGED <<scriptVars, chain, api, balanceAdapter, nativeToken,
                   xcmVersions, stream>>

\* subscribeMaxInput(token, address, to); nobody subscribes to what it
\* returns
CallSubscribeMaxInput ==
    /\ pc = "adapter"
    /\ \E token \in Tokens, to \in Destinations :
          call' = MaxInputCall(token, to)
    /\ UNCHANGED <<scriptVars, chain, api, balanceAdapter, nativeToken,
                   xcmVersions, stream>>

CallCreateTx ==
    /\ pc = "adapter"
    /\ \E token \in Tokens, to \in Destinations, amount \in Amounts :
          call' = [op |-> "createTx", token |-> token, to |-> to,
                   amount |-> amount, state |-> Activation,
                   outcome |-> CreateTx(chain, api, balanceAdapter,
                                        nativeToken, xcmVersions, token, to,
                                        amount)]
    /\ UNCHANGED <<scriptVars, chain, api, balanceAdapter, nativeToken,
                   xcmVersions, stream>>

\* getCrossChainFee(token, to): the fee of the route, when there is one
CallGetCrossChainFee ==
    /\ pc = "adapter"
    /\ \E token \in Tokens, to \in Destinations :
          LET routers == Routers(chain) IN
          call' = [op |-> "getCrossChainFee", token |-> token, to |-> to,
                   state |-> Activation,
                   outcome |->
                       IF RoutersOf(routers, token, to) = {}
                       THEN Threw("RouteNotFound")
                       ELSE [kind |-> "fee",
                             fee |-> getCrossChainFee(routers, token, to)]]
    /\ UNCHANGED <<scriptVars, chain, api, balanceAdapter, nativeToken,
                   xcmVersions, stream>>

(***************************************************************************)
(* The adapter of the other specifications, at rest.                       *)
(***************************************************************************)
NoCall == [op |-> "none", state |-> "constructed"]

AdapterAtRest ==
    /\ chain = "kintsugi"
    /\ api = Undefined
    /\ balanceAdapter = Undefined
    /\ nativeToken = Undefined
    /\ xcmVersions = {}
    /\ stream = NoStream
    /\ call = NoCall

(***************************************************************************)
(* The verification script.                                                *)
(***************************************************************************)
ScriptAtStart ==
    /\ idx = 1
    /\ defect = NoError
    /\ feeBudgetCfg = 0
    /\ edCfg = 0
    /\ attemptCount = 1
    /\ everyAttemptTimedOut = TRUE
    /\ ret = [message |-> "", result |-> "OK"]
    /\ actualFee = 0
    /\ testCase = "FeeEstimate"
    /\ sentAmount = 0
    /\ session = "NONE"
    /\ subscribed = FALSE
    /\ consumed = 0
    /\ newBalance = 0
    /\ caught = NoError
    /\ result = NoResult
    /\ verdicts = <<>>
    /\ problematicTestCases = <<>>
    /\ aggregateTestResult = "OK"
    /\ uncaught = NoError
    /\ exitCode = "running"
    /\ dest = NoDest

Init ==
    /\ pc = "main"
    /\ ScriptAtStart
    /\ AdapterAtRest

Next ==
    \/ Connect
    \/ MainCatch
    \/ NextCase
    \/ CheckTransferBegin
    \/ SendTxCreate
    \/ SendTxSubmit
    \/ SendTxSubscribe
    \/ StatusChecking
    \/ SessionEnd
    \/ SendTxReadBalance
    \/ SendTxJudge
    \/ CheckFee
    \/ RetryDecide
    \/ RecordResult
    \/ Report

Spec == Init /\ [][Next]_vars

\* the script when the deadline of a session is kept: subscribeBalanceChanged
\* delivers SUCCESS, or TIMEOUT once cfg.timeout has passed
SpecTimed == Init /\ [][Next]_vars /\ WF_vars(SessionEnd)

(***************************************************************************)
(* The fee judgment on drawn inputs: checkTransfer after its first sendTx  *)
(* returned actualFee.                                                     *)
(***************************************************************************)
InitFee ==
    /\ pc = "feeCheck"
    /\ idx = 1
    /\ defect \in {NoError, "RouteNotFound"}
    /\ feeBudgetCfg \in 0..MaxJudgedBudget
    /\ edCfg = 0
    /\ attemptCount = 1
    /\ everyAttemptTimedOut = TRUE
    /\ ret = [message |-> "", result |-> "OK"]
    /\ actualFee \in 0..MaxJudgedFee
    /\ testCase = "FeeEstimate"
    /\ newBalance = 1
    /\ sentAmount = actualFee + newBalance
    /\ session = "SUCCESS"
    /\ subscribed = FALSE
    /\ consumed = 0
    /\ caught = NoError
    /\ result = NoResult
    /\ verdicts = <<>>
    /\ problematicTestCases = <<>>
    /\ aggregateTestResult = "OK"
    /\ uncaught = NoError
    /\ exitCode = "running"
    /\ dest = NoDest
    /\ AdapterAtRest

NextFee == CheckFee

SpecFee == InitFee /\ [][NextFee]_vars

(***************************************************************************)
(* One session of sendTx on the balance of the destination address: from   *)
(* createTx to the end of lastValueFrom. subscribeBalanceChanged compares   *)
(* each balance its subscription delivers with the first one delivered.    *)
(***************************************************************************)
\* expectedDiff = FN.fromInner("1", ...): one planck
ExpectedDiff == 1

\* the status of a delivered balance: the increase over the saved balance
\* has reached the expected amount, or not yet
BalanceChanged(saved, balance) ==
    IF balance - saved >= ExpectedDiff THEN "SUCCESS" ELSE "CHECKING"

\* the amounts the two transfers of checkTransfer send
SentAmounts ==
    {m * MinAmountFactor : m \in MinInputs}
        \cup {AmountToSend(f, e) : f \in 1..MaxFee, e \in 0..MaxEd}

InitSession ==
    /\ pc = "submit"
    /\ idx = 1
    /\ defect = NoError
    /\ feeBudgetCfg = 0
    /\ edCfg = 0
    /\ attemptCount = 1
    /\ everyAttemptTimedOut = TRUE
    /\ ret = [message |-> "", result |-> "OK"]
    /\ actualFee = 0
    /\ testCase = "FeeEstimate"
    /\ sentAmount \in SentAmounts
    /\ session = "NONE"
    /\ subscribed = FALSE
    /\ consumed = 0
    /\ newBalance = 0
    /\ caught = NoError
    /\ result = NoResult
    /\ verdicts = <<>>
    /\ problematicTestCases = <<>>
    /\ aggregateTestResult = "OK"
    /\ uncaught = NoError
    /\ exitCode = "running"
    /\ dest = NoDest
    /\ AdapterAtRest

\* the transfer arrives: the destination chain credits the address with
\* what is left of the amount sent; the message is on its way as soon as
\* submitTx has sent it
BalanceArrives ==
    /\ pc \in {"subscribe", "checking"}
    /\ dest.balance = 0
    /\ \E b \in PossibleBalances(sentAmount) \ {0} :
          dest' = [dest EXCEPT !.balance = b]
    /\ UNCHANGED <<pc, caseVars, everyAttemptTimedOut, ret, actualFee, testCase,
                   sentAmount, session, subscribed, consumed, newBalance,
                   caught, result, uncaught, batchVars, adapterVars>>

\* the subscription delivers the balance of the address: the first one
\* delivered is saved, and takeWhile goes on or ends with the status
SnapshotDelivered ==
    /\ pc = "checking"
    /\ subscribed
    /\ LET saved == IF dest.saved = Unset THEN dest.balance ELSE dest.saved
           status == BalanceChanged(saved, dest.balance)
       IN
       /\ dest' = [dest EXCEPT !.saved = saved, !.last = dest.balance]
       /\ session' = status
       /\ IF Continues(status)
          THEN /\ consumed < MaxStatuses
               /\ consumed' = consumed + 1
               /\ UNCHANGED <<pc, subscribed>>
          ELSE /\ subscribed' = FALSE
               /\ pc' = "readBalance"
               /\ UNCHANGED consumed
    /\ UNCHANGED <<caseVars, everyAttemptTimedOut, ret, actualFee, testCase,
                   sentAmount, newBalance, caught, result, uncaught, batchVars,
                   adapterVars>>

\* cfg.timeout has passed: the status is TIMEOUT, and takeWhile ends
DeadlinePassed ==
    /\ pc = "checking"
    /\ subscribed
    /\ session' = "TIMEOUT"
    /\ subscribed' = FALSE
    /\ pc' = "readBalance"
    /\ UNCHANGED <<caseVars, everyAttemptTimedOut, ret, actualFee, testCase,
                   sentAmount, consumed, newBalance, caught, result, uncaught,
                   batchVars, adapterVars, dest>>

NextSession ==
    \/ SendTxSubmit
    \/ SendTxSubscribe
    \/ BalanceArrives
    \/ SnapshotDelivered
    \/ DeadlinePassed

SpecSession == InitSession /\ [][NextSession]_vars

(***************************************************************************)
(* One adapter, from its construction.                                     *)
(***************************************************************************)
InitAdapter ==
    /\ pc = "adapter"
    /\ ScriptAtStart
    /\ chain \in AdapterChains
    /\ api = Undefined
    /\ balanceAdapter = Undefined
    /\ nativeToken = Undefined
    /\ xcmVersions = {}
    /\ stream = NoStream
    /\ call = NoCall

NextAdapter ==
    \/ SetApiBegin
    \/ SetApiReady
    \/ CallSubscribeTokenBalance
    \/ CallSubscribeMaxInput
    \/ CallCreateTx

SpecAdapter == InitAdapter /\ [][NextAdapter]_vars

(***************************************************************************)
(* The fees an adapter quotes for its routes.                              *)
(***************************************************************************)
InitRoute ==
    /\ InitAdapter
    /\ chain \in ChainsWithRouters

NextRoute == CallGetCrossChainFee

SpecRoute == InitRoute /\ [][NextRoute]_vars

(***************************************************************************)
(* One adapter and the one stream a caller subscribes to.                  *)
(***************************************************************************)
\* the one subscription of the behaviour, to the stream that
\* subscribeTokenBalance returns
SubscribeToTokenBalance ==
    /\ pc = "adapter"
    /\ call = NoCall
    /\ \E token \in Tokens :
          /\ call' = TokenBalanceCall(token)
          /\ stream' = IF call'.outcome.kind = "stream"
                       THEN BalanceStream(call'.outcome)
                       ELSE NoStream
    /\ UNCHANGED <<scriptVars, chain, api, balanceAdapter, nativeToken,
                   xcmVersions>>

\* the one subscription of the behaviour, to the stream that
\* subscribeMaxInput returns; the destination only goes into the dry run,
\* whose fee is drawn
SubscribeToMaxInput ==
    /\ pc = "adapter"
    /\ call = NoCall
    /\ \E token \in Tokens :
          /\ call' = MaxInputCall(token, "interlay")
          /\ IF call'.outcome.kind = "stream"
             THEN \E ed \in TokenEDs(chain, token) :
                      stream' = MaxInputStream(call'.outcome, ed)
             ELSE stream' = NoStream
    /\ UNCHANGED <<scriptVars, chain, api, balanceAdapter, nativeToken,
                   xcmVersions>>

NextStream ==
    \/ SetApiBegin
    \/ SetApiReady
    \/ SubscribeToTokenBalance
    \/ SubscribeToMaxInput
    \/ StoreChanged
    \/ FeeEstimated

SpecStream == InitAdapter /\ [][NextStream]_vars

(***************************************************************************)
(* The general key of the Astar createTx on drawn raw token ids.           *)
(***************************************************************************)
HexDigits ==
    <<"0", "1", "2", "3", "4", "5", "6", "7",
      "8", "9", "a", "b", "c", "d", "e", "f">>

\* a raw token id of n bytes, "0x" and two hexadecimal digits for each byte,
\* the bytes following pattern p
RawTokenId(n, p) ==
    <<"0", "x">> \o
    [i \in 1..(2 * n) |->
        IF i % 2 = 1
        THEN HexDigits[((((i + 1) \div 2) * p) % 16) + 1]
        ELSE HexDigits[(((i \div 2) + p) % 16) + 1]]

\* the raw token ids drawn: the two of tokenIds, and ids of every length up
\* to the mandated one
RawTokenIds ==
    {ASTAR_tokenIds[t] : t \in DOMAIN ASTAR_tokenIds}
        \cup {RawTokenId(n, p) : n \in 0..XCM_V3_GENERAL_KEY_DATA_BYTES,
                                 p \in 1..NumKeyPatterns}

InitKey ==
    /\ pc = "generalKey"
    /\ ScriptAtStart
    /\ chain = "astar"
    /\ api = "api"
    /\ balanceAdapter = "balanceAdapter"
    /\ nativeToken = "ASTR"
    /\ xcmVersions = {"V3"}
    /\ stream = NoStream
    /\ \E tokenId \in RawTokenIds :
          call = [op |-> "generalKey", tokenId |-> tokenId, state |-> "ready",
                  outcome |-> [kind |-> "none"]]

\* the general key of the asset, as createTx builds it for a runtime that
\* does not know the older encoding
BuildGeneralKey ==
    /\ pc = "generalKey"
    /\ call.outcome.kind = "none"
    /\ call' = [call EXCEPT
                   !.outcome = [kind |-> "key",
                                key |-> GeneralKey(
                                    supportsV0V1Multilocation(xcmVersions),
                                    call.tokenId)]]
    /\ UNCHANGED <<scriptVars, chain, api, balanceAdapter, nativeToken,
                   xcmVersions, stream>>

NextKey == BuildGeneralKey

SpecKey == InitKey /\ [][NextKey]_vars

(***************************************************************************)
(* Properties of the verification script (Spec).                           *)
(***************************************************************************)
\* the positions inside one call of sendTx
InSendTx == {"sendTx", "submit", "subscribe", "checking", "readBalance", "judge"}

\* C1, as stated: retryCheckTransfer runs checkTransfer at most MaxAttempts
\* times; a further attempt is started only after an attempt whose verdict
\* was FAIL (the first result that is not FAIL is returned at once), and the
\* result returned is that of the last attempt run.
C1_ReturnsFirstNotFail ==
    /\ attemptCount \in 1..MaxAttempts
    /\ (pc = "checkTransfer" /\ attemptCount > 1 => result.result = "FAIL")
    /\ (pc = "record" => result.attempt = attemptCount)

\* C1, amended: retryCheckTransfer runs checkTransfer at most MaxAttempts
\* times; a further attempt is started after every attempt whose verdict was
\* not OK (WARN as well as FAIL), the first OK result is returned at once,
\* and a result that is not OK is returned only by the last of MaxAttempts
\* attempts.
C1_ReturnsFirstOk ==
    /\ attemptCount \in 1..MaxAttempts
    /\ (pc = "checkTransfer" /\ attemptCount > 1 => result.result # "OK")
    /\ (pc = "record" =>
           /\ result.attempt = attemptCount
           /\ (result.result # "OK" => attemptCount = MaxAttempts))

\* a WARN of the last attempt is returned after MaxAttempts attempts
C1_Witness ==
    /\ pc = "record"
    /\ attemptCount = MaxAttempts
    /\ result.result = "WARN"
    /\ result.attempt = MaxAttempts

\* C2: when every attempt of a triple ended in a TIMEOUT session, exactly
\* MaxAttempts attempts were made, never one more, and the result returned
\* is the FAIL produced by the last attempt.
C2_TimeoutsExhaustRetries ==
    /\ attemptCount <= MaxAttempts
    /\ (pc = "record" /\ everyAttemptTimedOut =>
           /\ attemptCount = MaxAttempts
           /\ result.attempt = MaxAttempts
           /\ result.result = "FAIL")

\* a triple whose attempts all timed out has its result returned
C2_Witness ==
    /\ pc = "record"
    /\ everyAttemptTimedOut
    /\ session = "TIMEOUT"
    /\ result.attempt = MaxAttempts

\* C4: the second transfer of checkTransfer sends exactly actualFee + ED + 1
\* planck, and when its session did not end in SUCCESS or the destination
\* balance read after it is zero, checkTransfer's result is FAIL, whatever
\* the fee check had left in ret.
C4_ExistentialDepositCheck ==
    /\ (testCase = "ExistentialDeposit" /\ pc \in InSendTx =>
           sentAmount = actualFee + edCfg + 1)
    /\ (testCase = "ExistentialDeposit" /\ pc = "retry"
            /\ (session # "SUCCESS" \/ newBalance = 0) =>
           /\ result.result = "FAIL"
           /\ result.attempt = attemptCount)

\* the second transfer left nothing at the destination after a fee check
\* that only warned, and the result is FAIL
C4_Witness ==
    /\ testCase = "ExistentialDeposit"
    /\ pc = "retry"
    /\ session = "SUCCESS"
    /\ newBalance = 0
    /\ ret.result = "WARN"
    /\ sentAmount = actualFee + edCfg + 1
    /\ result.result = "FAIL"

\* C5, as stated: a lookup or configuration error raised while a transfer is
\* checked is never caught and turned into a verdict, and the triple that
\* raises it is never attempted again.
C5_LookupErrorsSurface ==
    /\ caught \notin LookupErrors
    /\ (defect # NoError => attemptCount = 1)

\* C6: no error thrown while a transfer is checked (a timed-out session, a
\* transfer that left nothing) reaches the uncaught-error handler;
\* checkTransfer completes with a verdict and a reason, a failed check with
\* FAIL and the error's message; and every triple whose final verdict is not
\* OK is listed in the report with that verdict.
C6_FailuresAreReported ==
    /\ uncaught \in {NoError, "ConnectError"}
    /\ (pc = "retry" =>
           /\ result.result \in ResultCode
           /\ (result.result # "OK" => result.message # "")
           /\ (caught = TransferFailed =>
                  /\ result.result = "FAIL"
                  /\ result.message \in {"TransferFailed:FeeEstimate",
                                         "TransferFailed:ExistentialDeposit"}))
    /\ \A i \in 1..Len(verdicts) :
           verdicts[i] # "OK" =>
               \E j \in 1..Len(problematicTestCases) :
                   /\ problematicTestCases[j].case = i
                   /\ problematicTestCases[j].icon = IconOf(verdicts[i])

\* a triple that timed out in each of its attempts is listed in the report
\* and the script goes on
C6_Witness ==
    /\ pc = "loop"
    /\ idx > 1
    /\ caught = TransferFailed
    /\ session = "TIMEOUT"
    /\ attemptCount = MaxAttempts
    /\ Len(problematicTestCases) > 0
    /\ problematicTestCases[Len(problematicTestCases)].case = idx - 1
    /\ problematicTestCases[Len(problematicTestCases)].icon = IconOf("FAIL")

\* the most severe verdict of a sequence of verdicts, OK < WARN < FAIL
MostSevere(seq) ==
    IF \E i \in 1..Len(seq) : seq[i] = "FAIL" THEN "FAIL"
    ELSE IF \E i \in 1..Len(seq) : seq[i] = "WARN" THEN "WARN"
    ELSE "OK"

\* C7: at every moment of the batch the aggregate verdict is the most severe
\* of the verdicts given so far, and no step lowers its severity.
C7_AggregateIsMostSevere ==
    /\ [](aggregateTestResult = MostSevere(verdicts))
    /\ [][ResultCodeValue(aggregateTestResult')
              >= ResultCodeValue(aggregateTestResult)]_vars

\* a WARN given after a FAIL left the aggregate at FAIL
C7_Witness ==
    /\ Len(verdicts) = 2
    /\ verdicts[1] = "FAIL"
    /\ verdicts[2] = "WARN"
    /\ aggregateTestResult = "FAIL"

\* C8: a run that ends with its report exits with status 0 exactly when the
\* aggregate is OK, 255 exactly when it is WARN and 254 exactly when it is
\* FAIL: three different statuses.
C8_ExitStatusDistinguishes ==
    pc = "exited" /\ uncaught = NoError =>
        /\ (ExitStatus(exitCode) = 0 <=> aggregateTestResult = "OK")
        /\ (ExitStatus(exitCode) = 255 <=> aggregateTestResult = "WARN")
        /\ (ExitStatus(exitCode) = 254 <=> aggregateTestResult = "FAIL")

\* a run whose aggregate is FAIL has exited
C8_Witness ==
    /\ pc = "exited"
    /\ uncaught = NoError
    /\ aggregateTestResult = "FAIL"
    /\ ExitStatus(exitCode) = 254

\* C29: a run that ends in main().catch exits with a status that none of
\* the three aggregate verdicts exits with.
C29_UncaughtExitIsDistinct ==
    pc = "exited" /\ uncaught # NoError =>
        \A aggregate \in ResultCode :
            ExitStatus(exitCode) # ExitStatus(ExitCodeOf(aggregate))

\* the statuses that end a session
Terminal == {"SUCCESS", "TIMEOUT"}

\* a step that consumes a status starts and ends in a CHECKING session
ConsumesWhileChecking ==
    consumed' > consumed =>
        (subscribed /\ session = "CHECKING" /\ subscribed' /\
         session' = "CHECKING")

\* a step from an ended session consumes nothing, subscribes to nothing and
\* keeps the outcome, unless it starts a new session
OutcomeIsFinal ==
    session \in Terminal =>
        (session' \in {session, "NONE", "PENDING"} /\ consumed' <= consumed /\
         ~subscribed')

\* C19: a session of sendTx holds its subscription and consumes statuses
\* only while its status is CHECKING; the first status that is not CHECKING
\* (SUCCESS or TIMEOUT) ends it and is its outcome: from then on no status
\* is consumed, the outcome does not change until a new session starts,
\* and the session holds no subscription.
C19_SessionEndsAtFirstTerminal ==
    /\ [](/\ (subscribed => pc = "checking" /\ session = "CHECKING")
          /\ (pc = "checking" => subscribed)
          /\ (pc \in {"readBalance", "judge"} =>
                 session \in Terminal /\ ~subscribed)
          /\ (session \in Terminal => ~subscribed))
    /\ [][ConsumesWhileChecking]_vars
    /\ [][OutcomeIsFinal]_vars

\* a session that consumed two CHECKING statuses and then ended in SUCCESS
C19_Witness ==
    /\ pc = "readBalance"
    /\ session = "SUCCESS"
    /\ consumed = MaxStatuses
    /\ ~subscribed

\* the positions inside one attempt, before checkTransfer has its result
InAttempt == {"checkTransfer", "feeCheck"} \cup InSendTx

\* the attempt count changes when a triple starts with attempt 1, or when
\* the attempt before has completed with a result that is not OK and the
\* next one starts
AttemptFollowsResult ==
    attemptCount' # attemptCount =>
        \/ pc = "loop" /\ attemptCount' = 1
        \/ /\ pc = "retry"
           /\ pc' = "checkTransfer"
           /\ attemptCount' = attemptCount + 1
           /\ result.attempt = attemptCount
           /\ result.result # "OK"
           /\ ~subscribed

\* a transfer starts from checkTransfer only, and a session starts only
\* when no subscription is held
OneTransferAtATime ==
    /\ (pc # "sendTx" /\ pc' = "sendTx" => pc \in {"checkTransfer", "feeCheck"})
    /\ (pc' = "checking" /\ pc # "checking" => pc = "subscribe" /\ ~subscribed)

\* C21: attempts of one triple are strictly sequential: attempt k+1 starts
\* only after attempt k has completed with a result; while an attempt is in
\* progress the last result is that of the attempt before; transfers and
\* sessions start one at a time, and no subscription is held outside the
\* session in progress.
C21_AttemptsAreSequential ==
    /\ [](/\ (pc \in InAttempt => result.attempt = attemptCount - 1)
          /\ (pc \in {"retry", "record"} => result.attempt = attemptCount)
          /\ (pc \notin InSendTx => ~subscribed)
          /\ (pc \in InAttempt \cup {"retry", "record"} =>
                 attemptCount \in 1..MaxAttempts))
    /\ [][AttemptFollowsResult]_vars
    /\ [][OneTransferAtATime]_vars

\* the session of the second attempt is in progress; the first attempt
\* completed with FAIL
C21_Witness ==
    /\ pc = "checking"
    /\ subscribed
    /\ attemptCount = 2
    /\ result.attempt = 1
    /\ result.result = "FAIL"

\* a step that changes the verdicts gives the triple at hand its verdict,
\* the result retryCheckTransfer returned, and moves on to the next triple
OneVerdictPerTriple ==
    verdicts' # verdicts =>
        /\ pc = "record"
        /\ Len(verdicts) = idx - 1
        /\ verdicts' = Append(verdicts, result.result)
        /\ idx' = idx + 1

\* the triple at hand changes only when it has its verdict, to the next one
TriplesInOrder ==
    idx' # idx => idx' = idx + 1 /\ Len(verdicts') = idx

\* C28: once the adapters are connected, the triples of the batch are
\* processed in the given order and one at a time, each gets exactly one
\* verdict that is never changed afterwards, whatever the verdicts of the
\* triples before it, and the run exits with an aggregate only when the
\* last triple has its verdict.
C28_EveryTripleGetsItsVerdict ==
    /\ [](/\ idx \in 1..(NumCases + 1)
          /\ Len(verdicts) \in {idx - 1, idx}
          /\ (pc \in InAttempt \cup {"retry", "record"} =>
                 idx <= NumCases /\ Len(verdicts) = idx - 1)
          /\ (pc = "exited" /\ uncaught = NoError =>
                 Len(verdicts) = NumCases /\ idx = NumCases + 1))
    /\ [][OneVerdictPerTriple]_vars
    /\ [][TriplesInOrder]_vars

\* the first triple failed, the last one was still checked and is OK, and
\* the run has exited
C28_Witness ==
    /\ pc = "exited"
    /\ Len(verdicts) = NumCases
    /\ verdicts[1] = "FAIL"
    /\ verdicts[NumCases] = "OK"
    /\ exitCode = ExitFail

(***************************************************************************)
(* Properties of the verification script when deadlines are kept           *)
(* (SpecTimed).                                                            *)
(***************************************************************************)
\* C20: a session does not stay in CHECKING forever: it ends, in TIMEOUT
\* when no SUCCESS is delivered; a session that ended in TIMEOUT holds no
\* subscription, and sendTx throws after it, so that the attempt's result
\* is FAIL with the message of the failed transfer.
C20_TimeoutEndsSession ==
    /\ (pc = "checking" ~> (pc = "readBalance" /\ session \in Terminal))
    /\ [](session = "TIMEOUT" => ~subscribed /\ pc # "checking")
    /\ [](session = "TIMEOUT" /\ pc \notin {"readBalance", "judge"} =>
              caught = TransferFailed)
    /\ [](session = "TIMEOUT" /\ pc \in {"retry", "record"} =>
              /\ result.result = "FAIL"
              /\ result.message \in {"TransferFailed:FeeEstimate",
                                     "TransferFailed:ExistentialDeposit"})

\* the session of the first transfer timed out, the balance arrived only
\* afterwards, and the attempt failed
C20_Witness ==
    /\ pc = "retry"
    /\ session = "TIMEOUT"
    /\ testCase = "FeeEstimate"
    /\ attemptCount = 1
    /\ newBalance > 0
    /\ ~subscribed
    /\ caught = TransferFailed
    /\ result.result = "FAIL"

(***************************************************************************)
(* Properties of the fee judgment (SpecFee).                               *)
(***************************************************************************)
\* the verdict the fee check left: the FAIL it returned, or ret
FeeCheckVerdict == IF pc = "retry" THEN result.result ELSE ret.result

C9_ApiNotFoundBeforeSetApi ==
    call.op # "none" /\ call.state = "constructed" =>
        /\ call.outcome.kind = "throw"
        /\ call.outcome.error = "ApiNotFound"

\* createTx was called on a constructed Astar adapter and threw ApiNotFound
C9_Witness ==
    /\ call.op = "createTx"
    /\ call.state = "constructed"
    /\ chain = "astar"
    /\ api = Undefined
    /\ call.outcome.kind = "throw"
    /\ call.outcome.error = "ApiNotFound"

\* C23: while setApi waits for the api to be ready (the handle is attached,
\* the balance adapter is not yet created), subscribeTokenBalance,
\* subscribeMaxInput and createTx still throw ApiNotFound.
C23_ActivationIsAtomic ==
    /\ call.op \in {"subscribeTokenBalance", "subscribeMaxInput", "createTx"}
    /\ call.state = "attached"
    => /\ call.outcome.kind = "throw"
       /\ call.outcome.error = "ApiNotFound"

\* a token that the chain's lookup table does not hold and that is not the
\* chain's native token
NotConfigured(c, token) ==
    token \notin DOMAIN TokenTable(c) /\ token # nativeToken

\* C10: on an activated adapter, the balance query and createTx of a token
\* that is not configured for the chain throw CurrencyNotFound.
C10_CurrencyNotFound ==
    /\ call.op \in {"subscribeTokenBalance", "createTx"}
    /\ call.state = "ready"
    /\ NotConfigured(chain, call.token)
    => /\ call.outcome.kind = "throw"
       /\ call.outcome.error = "CurrencyNotFound"

\* createTx of a token unknown to Kintsugi threw CurrencyNotFound
C10_Witness ==
    /\ call.op = "createTx"
    /\ call.state = "ready"
    /\ chain = "kintsugi"
    /\ call.token = "XYZ"
    /\ call.to = "statemine"
    /\ call.outcome.kind = "throw"
    /\ call.outcome.error = "CurrencyNotFound"

\* C25: on an activated adapter, the balance query and createTx of a token
\* that the chain's lookup table holds do not throw CurrencyNotFound,
\* whatever id the table gives the token.
C25_TableTokensAreAccepted ==
    /\ call.op \in {"subscribeTokenBalance", "createTx"}
    /\ call.state = "ready"
    /\ call.token \in DOMAIN TokenTable(chain)
    => ~(/\ call.outcome.kind = "throw"
         /\ call.outcome.error = "CurrencyNotFound")

\* the destination of the message built by the last createTx
BuiltDst == call.outcome.args[3].V1

\* C11, as stated: a message built by createTx for a relay-chain destination
\* (kusama or polkadot) has the single-level shape, one junction, the
\* account; a message built for any other destination has the two-level
\* shape, the parachain and then the account; every message has exactly one
\* of the two shapes.
C11_AddressingShape ==
    /\ call.op = "createTx"
    /\ call.outcome.kind = "tx"
    /\ Family(chain) \in {"interlay", "parallel"}
    => /\ BuiltDst.interior \in {"X1", "X2"}
       /\ (call.to \in RelayChains =>
               /\ BuiltDst.interior = "X1"
               /\ BuiltDst.junctions = <<"AccountId32">>)
       /\ (call.to \notin RelayChains =>
               /\ BuiltDst.interior = "X2"
               /\ BuiltDst.junctions = <<"Parachain", "AccountId32">>)

\* the route of the chain's configuration the last createTx was called for
CalledRoutes ==
    {r \in InterlayRouters(chain) : r.to = call.to /\ r.token = call.token}

\* C12: a message built by the Interlay or Kintsugi createTx for statemine
\* or statemint is one transferMulticurrencies of exactly two assets, the
\* token's id with the amount first and the fee token with the fee amount of
\* the configured route second, and the fee item is index 1; a message built
\* for any other destination is an xTokens transfer of exactly 4 arguments,
\* the first the token's id and the second the amount.
C12_MessageKind ==
    /\ call.op = "createTx"
    /\ call.outcome.kind = "tx"
    /\ Family(chain) = "interlay"
    => /\ call.outcome.section = "xTokens"
       /\ Len(call.outcome.args) = 4
       /\ IF call.to \in AssetHubs
          THEN /\ call.outcome.method = "transferMulticurrencies"
               /\ Len(call.outcome.args[1]) = 2
               /\ call.outcome.args[1][1] =
                      [currency |-> getSupportedTokens(chain)[call.token],
                       amount |-> call.amount]
               /\ \E r \in CalledRoutes :
                      /\ call.outcome.args[1][2].currency.Token = r.fee.token
                      /\ call.outcome.args[1][2].amount = r.fee.amount
               /\ call.outcome.args[2] = 1
          ELSE /\ call.outcome.method = "transfer"
               /\ call.outcome.args[1] = getSupportedTokens(chain)[call.token]
               /\ call.outcome.args[2] = call.amount

\* Kintsugi built the transfer of 10 planck of USDT to statemine, the fee of
\* 10 USDT bundled second
C12_Witness ==
    /\ call.op = "createTx"
    /\ chain = "kintsugi"
    /\ call.token = "USDT"
    /\ call.to = "statemine"
    /\ call.amount = 10
    /\ call.outcome.kind = "tx"
    /\ call.outcome.method = "transferMulticurrencies"
    /\ call.outcome.args[1][2].currency.Token = "USDT"
    /\ call.outcome.args[2] = 1

\* C26: in the two-asset message the Interlay or Kintsugi createTx builds
\* for statemine or statemint, the fee asset is named by the id that the
\* chain's lookup table gives the fee token of the route, as the principal
\* is.
C26_FeeAssetIdentity ==
    /\ call.op = "createTx"
    /\ call.outcome.kind = "tx"
    /\ Family(chain) = "interlay"
    /\ call.to \in AssetHubs
    => \A r \in CalledRoutes :
           /\ r.fee.token \in DOMAIN getSupportedTokens(chain)
           /\ call.outcome.args[1][2].currency =
                  getSupportedTokens(chain)[r.fee.token]

\* C27: in every message the Astar createTx builds, of the native token and
\* of any other, the destination, the beneficiary and the asset list carry
\* the same encoding, and the general key of the asset has the shape of
\* that encoding.
C27_OneEncodingPerMessage ==
    /\ call.op = "createTx"
    /\ chain = "astar"
    /\ call.outcome.kind = "tx"
    => LET dst == call.outcome.args[1]
           acc == call.outcome.args[2]
           ass == call.outcome.args[3]
       IN
       /\ dst.version \in {"V1", "V3"}
       /\ acc.version = dst.version
       /\ ass.version = dst.version
       /\ call.outcome.method = "reserveWithdrawAssets" =>
              (ass.version = "V3" <=> "length" \in DOMAIN ass.GeneralKey)

\* on a runtime that knows the newer encoding only, Astar built the
\* withdrawal of IBTC with the three arguments in that encoding
C27_Witness ==
    /\ call.op = "createTx"
    /\ chain = "astar"
    /\ xcmVersions = {"V3"}
    /\ call.token = "IBTC"
    /\ call.outcome.kind = "tx"
    /\ call.outcome.method = "reserveWithdrawAssets"
    /\ call.outcome.args[1].version = "V3"
    /\ call.outcome.args[2].version = "V3"
    /\ call.outcome.args[3].version = "V3"
    /\ call.outcome.args[3].GeneralKey.length = 2

\* the newest of a set of encodings
Newest(versions) == IF "V3" \in versions THEN "V3" ELSE "V1"

\* C14, as stated: the message built by the Astar createTx is in the newest
\* encoding the chain's runtime knows; when the runtime knows both the older
\* and the newer encoding, the message is in the newer one.
C14_NewestVersion ==
    /\ call.op = "createTx"
    /\ call.outcome.kind = "tx"
    /\ Family(chain) = "astar"
    => /\ call.outcome.args[1].version = Newest(xcmVersions)
       /\ call.outcome.args[2].version = Newest(xcmVersions)
       /\ call.outcome.args[3].version = Newest(xcmVersions)

(***************************************************************************)
(* Properties of the general key (SpecKey).                                *)
(***************************************************************************)
\* the number of characters of a general key's data: "0x" and two digits
\* for each of the mandated bytes
KeyDataLength == 2 * XCM_V3_GENERAL_KEY_DATA_BYTES + 2

\* C13: for a raw token id of at most the mandated number of bytes, the data
\* of the general key of the newer encoding is the raw id followed by zero
\* bytes up to exactly the mandated length, its length field is the number
\* of bytes of the raw id, and a raw id of the mandated length is the data
\* unchanged.
C13_GeneralKeyPadding ==
    call.op = "generalKey" /\ call.outcome.kind = "key" =>
        LET id == call.tokenId
            key == call.outcome.key
        IN
        /\ Len(key.data) = KeyDataLength
        /\ SubSeq(key.data, 1, Len(id)) = id
        /\ \A i \in (Len(id) + 1)..Len(key.data) : key.data[i] = "0"
        /\ 2 * key.length + 2 = Len(id)
        /\ (Len(id) = KeyDataLength => key.data = id)

\* the general key of IBTC's raw id "0x0001": two bytes, then thirty zero
\* bytes
C13_Witness ==
    /\ call.op = "generalKey"
    /\ call.outcome.kind = "key"
    /\ call.tokenId = ASTAR_tokenIds["IBTC"]
    /\ call.outcome.key.length = 2
    /\ SubSeq(call.outcome.key.data, 1, 6) = <<"0", "x", "0", "0", "0", "1">>
    /\ Len(call.outcome.key.data) = KeyDataLength
    /\ call.outcome.key.data[KeyDataLength] = "0"

(***************************************************************************)
(* Properties of the streams (SpecStream).                                 *)
(***************************************************************************)
\* the subscribed token goes the native way of the balance adapter
\* (the balance adapter of Interlay and Kintsugi has none)
NativeBalance == Family(chain) # "interlay" /\ call.token = nativeToken

\* C15: every snapshot a balance adapter emits has free >= available; the
\* snapshot of a token that is not native has free = available = the
\* balance of the store's record (0 when there is none) and locked =
\* reserved = 0; the snapshot of the native token has the four amounts of
\* the upstream record unchanged, so free = locked + available holds of it
\* whenever it holds upstream.
C15_BalanceSnapshot ==
    stream.snapshots > 0 =>
        /\ stream.snapshot.free >= stream.snapshot.available
        /\ IF NativeBalance
           THEN /\ stream.snapshot.free = stream.store.freeBalance
                /\ stream.snapshot.locked = stream.store.lockedBalance
                /\ stream.snapshot.reserved = stream.store.reservedBalance
                /\ stream.snapshot.available = stream.store.availableBalance
                /\ (stream.store.freeBalance =
                        stream.store.lockedBalance
                            + stream.store.availableBalance
                    => stream.snapshot.free =
                           stream.snapshot.locked + stream.snapshot.available)
           ELSE /\ (stream.store.present =>
                       stream.snapshot.free = stream.store.balance)
                /\ (~stream.store.present => stream.snapshot.free = 0)
                /\ stream.snapshot.available = stream.snapshot.free
                /\ stream.snapshot.locked = 0
                /\ stream.snapshot.reserved = 0

\* Astar's native balance with 1 planck of 3 locked and 1 reserved
C15_Witness ==
    /\ call.op = "subscribeTokenBalance"
    /\ chain = "astar"
    /\ call.token = nativeToken
    /\ stream.snapshots > 0
    /\ stream.store.freeBalance = 3
    /\ stream.snapshot = [free |-> 3, locked |-> 1, reserved |-> 1,
                          available |-> 2]

\* C16, as stated: no amount subscribeMaxInput emits is negative.
C16_MaxInputNeverNegative ==
    stream.op = "maxInput" /\ stream.emissions > 0 => stream.emitted >= 0

\* what subscribeMaxInput is to emit of the latest snapshot, in tenths of a
\* planck: available - 1.2 x the fee - the minimum balance to exist
ExpectedMaxInput ==
    10 * stream.snapshot.available - 12 * stream.txFee - 10 * stream.ed

\* every emission is computed from the most recent snapshot, with the fee 0
\* for a token that is not native
EmissionsAreCurrent ==
    stream.op = "maxInput" /\ stream.emissions > 0 =>
        /\ stream.emitted = ExpectedMaxInput
        /\ (call.token # nativeToken => stream.txFee = 0)
        /\ stream.snapshots > 0

\* C17, as stated: every amount subscribeMaxInput emits is available - 1.2
\* x estimatedTxFee - minimumBalanceToExist of the most recent snapshot,
\* with the fee 0 for a token that is not native, and each new balance
\* snapshot produces a new emission.
C17_EverySnapshotEmits ==
    /\ []EmissionsAreCurrent
    /\ [][stream.op = "maxInput" /\ stream'.snapshots > stream.snapshots
              => stream'.emissions > stream.emissions]_vars

\* C17, amended: every amount subscribeMaxInput emits is available - 1.2 x
\* estimatedTxFee - minimumBalanceToExist of the most recent snapshot, with
\* the fee 0 for a token that is not native; nothing is emitted before the
\* fee is known, each snapshot delivered once the fee is known produces a
\* new emission, and the fee's arrival produces one when a snapshot was
\* delivered before it.
C17_SnapshotsEmitOnceFeeKnown ==
    /\ [](EmissionsAreCurrent /\ (stream.emissions > 0 => stream.feeKnown))
    /\ [][stream.op = "maxInput" /\ stream'.snapshots > stream.snapshots
              => (stream'.emissions > stream.emissions <=> stream.feeKnown)]_vars
    /\ [][stream.op = "maxInput" /\ ~stream.feeKnown /\ stream'.feeKnown
              => (stream'.emissions > stream.emissions
                      <=> stream.snapshots > 0)]_vars

\* the native token of Heiko: a snapshot, the fee of 1 planck, a second
\* snapshot; two emissions, the last of the second snapshot
C17_Witness ==
    /\ call.op = "subscribeMaxInput"
    /\ chain = "heiko"
    /\ call.token = nativeToken
    /\ stream.snapshots = 2
    /\ stream.emissions = 2
    /\ stream.txFee = 1
    /\ stream.ed = 1
    /\ stream.snapshot.available = 3
    /\ stream.emitted = 8

\* C18: an amount A > 0 that subscribeMaxInput emits is at most the
\* available balance of the latest snapshot, and A + estimatedTxFee +
\* minimumBalanceToExist is at most that balance (in tenths of a planck).
C18_MaxInputAffordable ==
    stream.op = "maxInput" /\ stream.emissions > 0 /\ stream.emitted > 0 =>
        /\ stream.emitted <= 10 * stream.snapshot.available
        /\ stream.emitted + 10 * stream.txFee + 10 * stream.ed
               <= 10 * stream.snapshot.available

\* a positive amount with a fee and a minimum balance above zero: 3 planck
\* available, 1 of fee, 1 to exist, 0.8 planck may be sent
C18_Witness ==
    /\ stream.op = "maxInput"
    /\ stream.emissions > 0
    /\ stream.emitted > 0
    /\ stream.txFee > 0
    /\ stream.ed > 0
    /\ stream.emitted + 10 * stream.txFee + 10 * stream.ed
           < 10 * stream.snapshot.available

(***************************************************************************)
(* Properties of the quoted fees (SpecRoute).                              *)
(***************************************************************************)
\* the route the last call named, when the adapter's table holds one
QuotedRoutes ==
    {r \in Routers(chain) : r.to = call.to /\ r.token = call.token}

\* C22: for every route of an adapter's route table, getCrossChainFee
\* quotes the fee configured for the route, in the route's fee token, and
\* the amount is greater than zero.
C22_QuotedFeeIsPositive ==
    call.op = "getCrossChainFee" =>
        \A r \in QuotedRoutes :
            /\ call.outcome.kind = "fee"
            /\ call.outcome.fee.token = r.fee.token
            /\ call.outcome.fee.balance = r.fee.amount
            /\ call.outcome.fee.balance > 0


(***************************************************************************)
(* Properties of one session on the destination balance (SpecSession).     *)
(***************************************************************************)
\* C24: when a balance of the fresh destination address that shows the
\* expected increase was delivered to the session before its deadline, the
\* session ended in SUCCESS, whenever the transfer arrived: before or after
\* the subscription started.
C24_ArrivedTransferIsSuccess ==
    pc = "readBalance" /\ dest.last >= ExpectedDiff => session = "SUCCESS"


============================================================================
